---- MODULE Spec2Model ----
(***************************************************************************)
(* A model of app/embeddings.py: chunk_text_simple, the byte-window text   *)
(* chunker with overlap.  One call is one behaviour: Init is the state     *)
(* after lines 27-29 (chunks = [], text_bytes = text.encode('utf-8'),      *)
(* start = 0) for some input (text, max_bytes, overlap_bytes); the actions *)
(* are the steps of the while loop of lines 31-54 and the return of        *)
(* line 56.                                                                *)
(*                                                                         *)
(* A text is a sequence of Unicode code points (integers); text_bytes is a *)
(* sequence of byte values 0..255 computed by the UTF-8 encoder; a chunk   *)
(* is the sequence of code points the strict UTF-8 decoder returns.        *)
(***************************************************************************)
EXTENDS Integers, Sequences, FiniteSets, TLC

\* ------------------------------------------------------------------ bounds

\* Longest enumerated text, in code points.
MaxLen == 3

\* Enumerated max_bytes range over -MaxNeg..MaxM and overlap_bytes over
\* -MaxNeg..MaxO.
MaxM == 5
MaxO == 5
MaxNeg == 1

\* Iterations of the while loop a behaviour may take.  Every terminating call
\* on an enumerated input returns within 4 * MaxLen iterations; the calls
\* that never return are cut here.
MaxIter == 4 * MaxLen + 2

\* ------------------------------------------------------- program constants

\* def chunk_text_simple(text, max_bytes = 1024, overlap_bytes = 100)
DefaultMaxBytes == 1024
DefaultOverlapBytes == 100

\* --------------------------------------------------------------- UTF-8

\* One code point of each encoded length: 'a', U+00E9, U+20AC, U+1F600.
CodePoints == {97, 233, 8364, 128512}

\* str.encode('utf-8') of one code point.
EncodeCP(c) ==
  IF c < 128 THEN <<c>>
  ELSE IF c < 2048 THEN <<192 + (c \div 64), 128 + (c % 64)>>
  ELSE IF c < 65536
    THEN <<224 + (c \div 4096), 128 + ((c \div 64) % 64), 128 + (c % 64)>>
  ELSE <<240 + (c \div 262144), 128 + ((c \div 4096) % 64),
         128 + ((c \div 64) % 64), 128 + (c % 64)>>

\* str.encode('utf-8'): the concatenation of the code points' encodings.
RECURSIVE Encode(_)
Encode(t) == IF t = <<>> THEN <<>> ELSE EncodeCP(Head(t)) \o Encode(Tail(t))

\* The length of the sequence a lead byte announces; 0 for a byte that cannot
\* start a sequence (a continuation byte 0x80..0xBF, or 0xC0, 0xC1, 0xF5..).
SeqLen(b) ==
  IF b < 128 THEN 1
  ELSE IF b >= 194 /\ b <= 223 THEN 2
  ELSE IF b >= 224 /\ b <= 239 THEN 3
  ELSE IF b >= 240 /\ b <= 244 THEN 4
  ELSE 0

IsContinuation(b) == b >= 128 /\ b <= 191

\* The code point of the n-byte sequence at bs[i].
CodePointAt(bs, i, n) ==
  IF n = 1 THEN bs[i]
  ELSE IF n = 2 THEN (bs[i] - 192) * 64 + (bs[i + 1] - 128)
  ELSE IF n = 3
    THEN (bs[i] - 224) * 4096 + (bs[i + 1] - 128) * 64 + (bs[i + 2] - 128)
  ELSE (bs[i] - 240) * 262144 + (bs[i + 1] - 128) * 4096
       + (bs[i + 2] - 128) * 64 + (bs[i + 3] - 128)

DecodeError == [ok |-> FALSE, text |-> <<>>]

\* bytes.decode('utf-8') (strict) from position i: ok is FALSE where Python
\* raises UnicodeDecodeError (invalid start byte, truncated sequence, invalid
\* continuation byte, overlong form, surrogate).
RECURSIVE DecodeFrom(_, _)
DecodeFrom(bs, i) ==
  IF i > Len(bs) THEN [ok |-> TRUE, text |-> <<>>]
  ELSE LET n == SeqLen(bs[i]) IN
    IF \/ n = 0
       \/ i + n - 1 > Len(bs)
       \/ \E k \in 1..(n - 1) : ~IsContinuation(bs[i + k])
    THEN DecodeError
    ELSE LET c == CodePointAt(bs, i, n) IN
      IF \/ EncodeCP(c) # SubSeq(bs, i, i + n - 1)
         \/ (c >= 55296 /\ c <= 57343)
      THEN DecodeError
      ELSE LET rest == DecodeFrom(bs, i + n) IN
        IF rest.ok THEN [ok |-> TRUE, text |-> <<c>> \o rest.text]
        ELSE DecodeError

Decode(bs) == DecodeFrom(bs, 1)

\* ------------------------------------------------------------- slicing

\* A slice index as Python normalises it for a sequence of length n: a
\* negative index counts from the end, and the result is clamped to 0..n.
SliceIndex(i, n) ==
  LET j == IF i < 0 THEN i + n ELSE i IN
  IF j < 0 THEN 0 ELSE IF j > n THEN n ELSE j

\* text_bytes[lo:hi]; offsets are 0-based as in the source.
Slice(bs, lo, hi) ==
  LET a == SliceIndex(lo, Len(bs))
      b == SliceIndex(hi, Len(bs))
  IN IF a < b THEN SubSeq(bs, a + 1, b) ELSE <<>>

\* --------------------------------------------------------------- inputs

RECURSIVE TextsOfLen(_)
TextsOfLen(n) ==
  IF n = 0 THEN {<<>>}
  ELSE {<<c>> \o t : c \in CodePoints, t \in TextsOfLen(n - 1)}

Texts == UNION {TextsOfLen(n) : n \in 0..MaxLen}

RECURSIVE Repeat(_, _)
Repeat(t, n) == IF n = 0 THEN <<>> ELSE t \o Repeat(t, n - 1)

\* "hello", "hello world", "hello worl"
Hello == <<104, 101, 108, 108, 111>>
HelloWorld == Hello \o <<32, 119, 111, 114, 108, 100>>

Input(t, m, o) == [text |-> t, max_bytes |-> m, overlap_bytes |-> o]

\* The calls the documentation of the chunker works through.
Scenarios ==
  { Input(HelloWorld, 5, 2),
    Input(SubSeq(HelloWorld, 1, 10), 5, 2),
    Input(Repeat(<<128512>>, 10), 7, 2),
    Input(<<>>, DefaultMaxBytes, DefaultOverlapBytes),
    Input(Hello, DefaultMaxBytes, DefaultOverlapBytes),
    Input(Hello, 100, 100),
    Input(Hello, 100, 150) }

Inputs ==
  {Input(t, m, o) : t \in Texts, m \in (-MaxNeg)..MaxM, o \in (-MaxNeg)..MaxO}
    \cup Scenarios

\* ---------------------------------------------------------------- state

VARIABLES
  text,           \* the argument text, as code points
  max_bytes,      \* the argument max_bytes
  overlap_bytes,  \* the argument overlap_bytes
  text_bytes,     \* text.encode('utf-8')
  chunks,         \* the result list
  start,          \* the cursor
  end,            \* the window end of the current iteration
  chunk,          \* the last successful decode
  pc,             \* "loop", "backoff", "append" or "returned"
  iter,           \* how many times the loop body was entered
  wins            \* for each appended chunk, the cursor values it was cut at

vars == <<text, max_bytes, overlap_bytes, text_bytes, chunks, start, end,
          chunk, pc, iter, wins>>

args == <<text, max_bytes, overlap_bytes, text_bytes>>

\* The other components of the repository, one variable each.  A behaviour
\* runs one component; the others stay idle.
VARIABLES
  conc,           \* concurrent calls of chunk_text_simple
  search,         \* one call of routers/search.py search_documents
  uow,            \* one call of routers/unitofwork.py create_unit_of_work
  acct,           \* one call of routers/accounts.py get_accounts
  route,          \* one request dispatched by the application of main.py
  dc,             \* one call of routers/datacloud.py handle_data_cloud_change_event
  gh              \* one call of github.py get_repositories

others == <<conc, search, uow, acct, route, dc, gh>>

Idle == [pc |-> "idle"]

OthersIdle ==
  /\ conc = Idle
  /\ search = Idle
  /\ uow = Idle
  /\ acct = Idle
  /\ route = Idle
  /\ dc = Idle
  /\ gh = Idle

\* --------------------------------------------------------- the function

\* A loop test that also admits start = len(text_bytes).
LoopCond_Inclusive(s, bs) == s <= Len(bs)

\* while start < len(text_bytes)
LoopCond(s, bs) == s < Len(bs)

\* A window one byte too long.
WindowEnd_OffByOne(s, m) == s + m + 1

\* end = start + max_bytes
WindowEnd(s, m) == s + m

\* A cursor moved past the byte after the window.
NextStart_Gap(e, o) == e + 1

\* A cursor moved to the window end, without the overlap.
NextStart_NoOverlap(e, o) == e

\* start = end - overlap_bytes
NextStart(e, o) == e - o

\* while end > start (the back-off loop)
BackOffCond(e, s) == e > s

\* Lines 27-29, for some call.  end and chunk are not bound yet; nothing reads
\* them before the first iteration assigns them.
Init ==
  \E in \in Inputs :
    /\ text = in.text
    /\ max_bytes = in.max_bytes
    /\ overlap_bytes = in.overlap_bytes
    /\ text_bytes = Encode(in.text)
    /\ chunks = <<>>
    /\ start = 0
    /\ end = 0
    /\ chunk = <<>>
    /\ pc = "loop"
    /\ iter = 0
    /\ wins = <<>>
    /\ OthersIdle

\* Lines 31-39: the loop test holds; take the window and try to decode it.
EnterIteration ==
  /\ pc = "loop"
  /\ LoopCond(start, text_bytes)
  /\ iter < MaxIter
  /\ iter' = iter + 1
  /\ end' = WindowEnd(start, max_bytes)
  /\ LET d == Decode(Slice(text_bytes, start, end')) IN
       IF d.ok
       THEN chunk' = d.text /\ pc' = "append"
       ELSE chunk' = chunk /\ pc' = "backoff"
  /\ UNCHANGED <<args, chunks, start, wins>>
  /\ UNCHANGED others

\* Lines 41-47: one round of the back-off loop.
BackOff ==
  /\ pc = "backoff"
  /\ BackOffCond(end, start)
  /\ end' = end - 1
  /\ LET d == Decode(Slice(text_bytes, start, end')) IN
       IF d.ok
       THEN chunk' = d.text /\ pc' = "append"
       ELSE chunk' = chunk /\ pc' = "backoff"
  /\ UNCHANGED <<args, chunks, start, iter, wins>>
  /\ UNCHANGED others

\* Lines 48-51: the back-off loop ran out without a decode; skip the chunk.
SkipChunk ==
  /\ pc = "backoff"
  /\ ~BackOffCond(end, start)
  /\ start' = end + 1
  /\ pc' = "loop"
  /\ UNCHANGED <<args, chunks, end, chunk, iter, wins>>
  /\ UNCHANGED others

\* Lines 53-54: append the chunk and move the cursor.
AppendChunk ==
  /\ pc = "append"
  /\ chunks' = Append(chunks, chunk)
  /\ wins' = Append(wins, [start |-> start, end |-> end])
  /\ start' = NextStart(end, overlap_bytes)
  /\ pc' = "loop"
  /\ UNCHANGED <<args, end, chunk, iter>>
  /\ UNCHANGED others

\* Lines 31 and 56: the loop test fails; return chunks.
Return ==
  /\ pc = "loop"
  /\ ~LoopCond(start, text_bytes)
  /\ pc' = "returned"
  /\ UNCHANGED <<args, chunks, start, end, chunk, iter, wins>>
  /\ UNCHANGED others

Next == EnterIteration \/ BackOff \/ SkipChunk \/ AppendChunk \/ Return

Spec == Init /\ [][Next]_vars

\* ------------------------------------------------ vocabulary of the claims

\* max_bytes > 0 and 0 <= overlap_bytes < max_bytes.
ValidConfig == max_bytes > 0 /\ overlap_bytes >= 0 /\ overlap_bytes < max_bytes

TotalLen == Len(text_bytes)

\* The byte offsets at which a code point of the text starts, and TotalLen.
Boundaries == {Len(Encode(SubSeq(text, 1, j))) : j \in 0..Len(text)}

Min(a, b) == IF a < b THEN a ELSE b

\* The byte offsets of text_bytes that the slice [w.start : w.end] holds.
WindowBytes(w) ==
  {k \in 0..(TotalLen - 1) :
     /\ SliceIndex(w.start, TotalLen) <= k
     /\ k < SliceIndex(w.end, TotalLen)}

\* bs without its last k bytes.
DropLast(bs, k) == IF k >= Len(bs) THEN <<>> ELSE SubSeq(bs, 1, Len(bs) - k)

\* The bytes of chunks i..Len(cs), each but the last without its trailing k.
RECURSIVE Reconstruct(_, _, _)
Reconstruct(cs, i, k) ==
  IF i > Len(cs) THEN <<>>
  ELSE IF i = Len(cs) THEN Encode(cs[i])
  ELSE DropLast(Encode(cs[i]), k) \o Reconstruct(cs, i + 1, k)

\* ceil(a / b) for a >= 0, b > 0.
CeilDiv(a, b) == (a + b - 1) \div b

Emoji10 == Repeat(<<128512>>, 10)

\* ------------------------------------------------------------ the claims

\* C1: under a valid configuration the call terminates.  The loop body is a
\* function of the cursor alone (text and parameters are fixed), so a call
\* terminates only if the loop is never entered again with a cursor value it
\* was already entered with: stated as "no iteration starts at a cursor an
\* earlier iteration started at".
C1_NoCursorRevisit ==
  (ValidConfig /\ pc = "loop" /\ start < TotalLen)
    => \A i \in 1..Len(wins) : wins[i].start # start

\* C2: a call with max_bytes <= 0, overlap_bytes < 0 or overlap_bytes >=
\* max_bytes is rejected before any processing: it never enters the loop body,
\* never appends a chunk and never returns a list.
C2_InvalidConfigRejected ==
  ~ValidConfig => (pc = "loop" /\ iter = 0 /\ chunks = <<>>)

\* C3: under a valid configuration every appended chunk is a non-empty string.
C3_ChunksNonEmpty ==
  ValidConfig => \A i \in 1..Len(chunks) : chunks[i] # <<>>

\* C4: under a valid configuration the cursor at the start of every iteration,
\* and the start and end of every chunk's byte window, are code-point
\* boundaries of the encoded text.
C4_WindowsOnBoundaries ==
  ValidConfig =>
    /\ (pc = "loop" /\ start < TotalLen) => start \in Boundaries
    /\ \A i \in 1..Len(wins) :
         /\ wins[i].start \in Boundaries
         /\ Min(wins[i].end, TotalLen) \in Boundaries

\* C5: for a non-empty text and a valid configuration, the returned chunks,
\* each but the last without its trailing overlap_bytes bytes, concatenate to
\* the bytes of the text.
C5_Reconstructs ==
  (pc = "returned" /\ ValidConfig /\ text # <<>>)
    => Reconstruct(chunks, 1, overlap_bytes) = text_bytes

\* C6: under a valid configuration chunk N+1 starts at (one past the last byte
\* of chunk N) - overlap_bytes, and the two windows share exactly
\* overlap_bytes bytes.
C6_ConsecutiveOverlap ==
  ValidConfig =>
    \A i \in 1..(Len(wins) - 1) :
      /\ wins[i + 1].start = Min(wins[i].end, TotalLen) - overlap_bytes
      /\ Cardinality(WindowBytes(wins[i]) \cap WindowBytes(wins[i + 1]))
           = overlap_bytes

\* C7: under a valid configuration every chunk encodes to at most max_bytes
\* bytes.
C7_ChunkSizeBound ==
  ValidConfig => \A i \in 1..Len(chunks) : Len(Encode(chunks[i])) <= max_bytes

\* C7's case: a call on text with multi-byte characters that has appended a
\* chunk of exactly max_bytes bytes and a non-empty chunk that back-off
\* shortened.
C7_Witness ==
  /\ ValidConfig
  /\ \E c \in {text[j] : j \in 1..Len(text)} : c >= 128
  /\ \E i \in 1..Len(chunks) : Len(Encode(chunks[i])) = max_bytes
  /\ \E i \in 1..Len(chunks) :
       /\ chunks[i] # <<>>
       /\ wins[i].end < wins[i].start + max_bytes

\* C8: with 0 < overlap_bytes < max_bytes the loop body is entered at most
\* ceil(L / (max_bytes - overlap_bytes)) + 1 times.
C8_IterationBound ==
  (0 < overlap_bytes /\ overlap_bytes < max_bytes)
    => iter <= CeilDiv(TotalLen, max_bytes - overlap_bytes) + 1

\* C9: on ten copies of a 4-byte code point with max_bytes = 7 and
\* overlap_bytes = 2, every chunk is exactly one whole character.
C9_EmojiScenario ==
  (text = Emoji10 /\ max_bytes = 7 /\ overlap_bytes = 2)
    => \A i \in 1..Len(chunks) : chunks[i] = <<128512>>

\* C10: on the empty text with a valid configuration the loop body is never
\* entered and the call can only return the empty list.
C10_EmptyText ==
  (text = <<>> /\ ValidConfig)
    => /\ iter = 0
       /\ chunks = <<>>
       /\ pc \in {"loop", "returned"}
       /\ start >= TotalLen

\* C10's case: chunk("", 1024, 100) has returned.
C10_Witness ==
  /\ text = <<>>
  /\ max_bytes = DefaultMaxBytes
  /\ overlap_bytes = DefaultOverlapBytes
  /\ pc = "returned"
  /\ chunks = <<>>

\* ===================================================== concurrent calls

\* The chunker's variables while another component runs.
ChunkerIdle ==
  /\ text = <<>>
  /\ max_bytes = 0
  /\ overlap_bytes = 0
  /\ text_bytes = <<>>
  /\ chunks = <<>>
  /\ start = 0
  /\ end = 0
  /\ chunk = <<>>
  /\ pc = "idle"
  /\ iter = 0
  /\ wins = <<>>

allvars == <<vars, others>>

\* Longest text of a concurrent call, in code points.
ConcMaxLen == 2

ConcMaxIter == 2 * ConcMaxLen + 2

\* Steps that let every call that returns within ConcMaxIter iterations do so.
ConcFuel == ConcMaxIter * 8

ConcCodePoints == {97, 233}

RECURSIVE ConcTextsOfLen(_)
ConcTextsOfLen(n) ==
  IF n = 0 THEN {<<>>}
  ELSE {<<c>> \o t : c \in ConcCodePoints, t \in ConcTextsOfLen(n - 1)}

ConcInputs ==
  {Input(t, mo[1], mo[2]) :
     t \in UNION {ConcTextsOfLen(n) : n \in 0..ConcMaxLen},
     mo \in {<<3, 1>>, <<2, 0>>, <<1, 0>>}}

\* The two call sites.
Procs == {1, 2}

\* The parameters and locals of one call after lines 27-29, but for chunks.
Frame(in) ==
  [text |-> in.text, max_bytes |-> in.max_bytes,
   overlap_bytes |-> in.overlap_bytes, text_bytes |-> Encode(in.text),
   start |-> 0, end |-> 0, chunk |-> <<>>, pc |-> "loop", iter |-> 0]

\* The first decode of a window (lines 37-39) or a decode of the back-off
\* loop (lines 43-47), in frame f with the window end e.
FrameDecode(f, e) ==
  LET d == Decode(Slice(f.text_bytes, f.start, e)) IN
  [f EXCEPT !.end = e,
            !.chunk = IF d.ok THEN d.text ELSE @,
            !.pc = IF d.ok THEN "append" ELSE "backoff"]

\* One step of chunk_text_simple, lines 31-56, on the frame f of a call and
\* its list cs: the five steps EnterIteration, Return, BackOff, SkipChunk and
\* AppendChunk as a function of the call's own state.
FrameStep(f, cs) ==
  IF f.pc = "loop" /\ LoopCond(f.start, f.text_bytes)
    THEN [f |-> [FrameDecode(f, WindowEnd(f.start, f.max_bytes))
                   EXCEPT !.iter = @ + 1],
          chunks |-> cs]
  ELSE IF f.pc = "loop"
    THEN [f |-> [f EXCEPT !.pc = "returned"], chunks |-> cs]
  ELSE IF f.pc = "backoff" /\ BackOffCond(f.end, f.start)
    THEN [f |-> FrameDecode(f, f.end - 1), chunks |-> cs]
  ELSE IF f.pc = "backoff"
    THEN [f |-> [f EXCEPT !.start = f.end + 1, !.pc = "loop"], chunks |-> cs]
  ELSE IF f.pc = "append"
    THEN [f |-> [f EXCEPT !.start = NextStart(f.end, f.overlap_bytes),
                          !.pc = "loop"],
          chunks |-> Append(cs, f.chunk)]
  ELSE [f |-> f, chunks |-> cs]

\* A list shared by every call, as a module-level or default-argument list
\* would be.
ChunksOf_Shared(p) == 1

\* The list a call appends to and returns: chunks = [] (line 27) is created
\* by the call itself, so call p has list p.
ChunksOf(p) == p

ConcInit ==
  /\ ChunkerIdle
  /\ search = Idle /\ uow = Idle /\ acct = Idle /\ route = Idle
  /\ dc = Idle /\ gh = Idle
  /\ \E in1 \in ConcInputs, in2 \in ConcInputs :
       conc = [pc |-> "run",
               inputs |-> <<in1, in2>>,
               frames |-> <<Frame(in1), Frame(in2)>>,
               lists |-> <<<<>>, <<>>>>]

\* Call p takes its next step; which call steps next is the scheduler's choice.
ConcStep(p) ==
  /\ conc.pc = "run"
  /\ conc.frames[p].pc # "returned"
  /\ conc.frames[p].iter < ConcMaxIter
       \/ ~(conc.frames[p].pc = "loop"
            /\ LoopCond(conc.frames[p].start, conc.frames[p].text_bytes))
  /\ LET r == FrameStep(conc.frames[p], conc.lists[ChunksOf(p)]) IN
       conc' = [conc EXCEPT !.frames[p] = r.f,
                            !.lists[ChunksOf(p)] = r.chunks]
  /\ UNCHANGED <<vars, search, uow, acct, route, dc, gh>>

ConcNext == \E p \in Procs : ConcStep(p)

ConcSpec == ConcInit /\ [][ConcNext]_allvars

\* The call on input in run alone: its frame and list after at most n steps.
RECURSIVE RunAlone(_, _, _)
RunAlone(f, cs, n) ==
  IF f.pc = "returned" \/ n = 0 THEN [f |-> f, chunks |-> cs]
  ELSE LET r == FrameStep(f, cs) IN RunAlone(r.f, r.chunks, n - 1)

Alone(in) == RunAlone(Frame(in), <<>>, ConcFuel)

FrameOfVars ==
  [text |-> text, max_bytes |-> max_bytes, overlap_bytes |-> overlap_bytes,
   text_bytes |-> text_bytes, start |-> start, end |-> end, chunk |-> chunk,
   pc |-> pc, iter |-> iter]

FrameStepAgrees ==
  [][FrameStep(FrameOfVars, chunks) = [f |-> FrameOfVars', chunks |-> chunks']]_vars

\* =============================================== routers/search.py

\* Python values whose type the code depends on: a str and a tuple.
Str(v) == [type |-> "str", val |-> v]
Tup(v) == [type |-> "tuple", val |-> v]

\* top_k: int = Query(10, ge=1, le=20)
TopKMin == 1
TopKMax == 20

\* get_database_document_count returns (None, message) when the database
\* cannot be queried; None is modelled as -1.
NoneCount == -1

\* Largest document count enumerated.
MaxDocs == 2

ValidModes == {"tree_summarize", "refine", "compact", "simple_summarize"}

\* A mode check that accepts every mode.
ModeIsValid_Any(m) == TRUE

\* response_mode in valid_modes (line 60)
ModeIsValid(m) == m \in ValidModes

\* A test that never finds the index empty.
NoDocuments_Never(c) == FALSE

\* doc_count == 0 (line 70); None == 0 is False
NoDocuments(c) == c = 0

\* An except clause that matches no exception.
IsHTTPException_Never(e) == FALSE

\* except HTTPException (line 93)
IsHTTPException(e) == e.kind = "http"

NoException == [kind |-> "none", status |-> 0, detail |-> <<>>]
HTTPException(st, d) == [kind |-> "http", status |-> st, detail |-> d]
OtherException(msg) == [kind |-> "other", status |-> 0, detail |-> <<msg>>]

\* rag.query (rag.py lines 148-161): return str(response), sources
RagQuery(answer, sources) == Tup(<<Str(answer), sources>>)

\* SearchResponse(query: str, response: str, documents_count: int):
\* pydantic accepts the model only if query and response are strings.
SearchResponseValid(q, r) == q.type = "str" /\ r.type = "str"

\* doc_count if doc_count else 0 (line 90)
CountOrZero(c) == IF c = NoneCount \/ c = 0 THEN 0 ELSE c

SearchRequests ==
  [has_query : BOOLEAN,
   query : {"test", "test question"},
   top_k : (TopKMin - 1)..(TopKMax + 1),
   response_mode : ValidModes \cup {"invalid_mode"}]

\* What the collaborators do in this call: the count the database reports,
\* whether engine creation or the engine's query raises, the LLM's answer.
SearchEnvs ==
  [count : {NoneCount} \cup 0..MaxDocs,
   engine_raises : BOOLEAN,
   query_raises : BOOLEAN,
   answer : {"Default response"}]

SearchInit ==
  /\ ChunkerIdle
  /\ conc = Idle /\ uow = Idle /\ acct = Idle /\ route = Idle
  /\ dc = Idle /\ gh = Idle
  /\ \E r \in SearchRequests, e \in SearchEnvs :
       search = [pc |-> "validate", req |-> r, env |-> e,
                 doc_count |-> NoneCount, answer |-> Str(""),
                 exc |-> NoException, calls |-> <<>>, errors |-> 0,
                 status |-> 0, detail |-> <<>>,
                 body |-> [query |-> "", response |-> "", documents_count |-> 0]]

SearchFrame == UNCHANGED <<vars, conc, uow, acct, route, dc, gh>>

\* Lines 25-33: the framework binds the query parameters; a missing query or a
\* top_k outside 1..20 is answered 422 and the function is not called.
SearchValidate ==
  /\ search.pc = "validate"
  /\ IF search.req.has_query
        /\ search.req.top_k >= TopKMin /\ search.req.top_k <= TopKMax
     THEN search' = [search EXCEPT !.pc = "mode"]
     ELSE search' = [search EXCEPT !.pc = "done", !.status = 422,
                                   !.detail = <<"validation error">>]
  /\ SearchFrame

\* Lines 57-64: validate response_mode.
SearchCheckMode ==
  /\ search.pc = "mode"
  /\ IF ModeIsValid(search.req.response_mode)
     THEN search' = [search EXCEPT !.pc = "count"]
     ELSE search' =
       [search EXCEPT !.pc = "except",
          !.exc = HTTPException(400,
                    <<"Invalid response_mode", ". Must be one of: ",
                      "tree_summarize, refine, compact, simple_summarize">>)]
  /\ SearchFrame

\* Lines 66-74: read the document count; no documents is a 404.
SearchCountDocs ==
  /\ search.pc = "count"
  /\ LET c == search.env.count
         s == [search EXCEPT !.doc_count = c,
                             !.calls = Append(@, <<"get_database_document_count">>)]
     IN IF NoDocuments(c)
        THEN search' =
          [s EXCEPT !.pc = "except",
             !.exc = HTTPException(404,
                       <<"No documents found", " in the index. ",
                         "Please load documents into the vector database first.">>)]
        ELSE search' = [s EXCEPT !.pc = "engine"]
  /\ SearchFrame

\* Lines 76-81: create the query engine.
SearchCreateEngine ==
  /\ search.pc = "engine"
  /\ LET s == [search EXCEPT
                 !.calls = Append(@, <<"create_query_engine",
                                      search.req.response_mode, search.req.top_k>>)]
     IN IF search.env.engine_raises
        THEN search' = [s EXCEPT !.pc = "except",
                                 !.exc = OtherException("engine creation failed")]
        ELSE search' = [s EXCEPT !.pc = "query"]
  /\ SearchFrame

\* Lines 83-85: answer = query(engine, query_text).
SearchQuery ==
  /\ search.pc = "query"
  /\ LET s == [search EXCEPT
                 !.calls = Append(@, <<"query", search.req.query>>)]
     IN IF search.env.query_raises
        THEN search' = [s EXCEPT !.pc = "except",
                                 !.exc = OtherException("query failed")]
        ELSE search' = [s EXCEPT !.pc = "respond",
                                 !.answer = RagQuery(search.env.answer, <<>>)]
  /\ SearchFrame

\* Lines 87-91: build the SearchResponse; a field of the wrong type raises
\* pydantic's ValidationError inside the try block.
SearchRespond ==
  /\ search.pc = "respond"
  /\ IF SearchResponseValid(Str(search.req.query), search.answer)
     THEN search' =
       [search EXCEPT !.pc = "done", !.status = 200,
          !.body = [query |-> search.req.query,
                    response |-> search.answer.val,
                    documents_count |-> CountOrZero(search.doc_count)]]
     ELSE search' =
       [search EXCEPT !.pc = "except",
          !.exc = OtherException("1 validation error for SearchResponse")]
  /\ SearchFrame

\* Lines 93-94: an HTTPException leaves the handler as it is.
SearchReraise ==
  /\ search.pc = "except"
  /\ IsHTTPException(search.exc)
  /\ search' = [search EXCEPT !.pc = "done", !.status = search.exc.status,
                              !.detail = search.exc.detail]
  /\ SearchFrame

\* Lines 95-100: any other exception is logged and becomes a 500.
SearchFail ==
  /\ search.pc = "except"
  /\ ~IsHTTPException(search.exc)
  /\ search' = [search EXCEPT !.pc = "done", !.status = 500,
                              !.errors = @ + 1,
                              !.detail = <<"Search failed: ">> \o search.exc.detail]
  /\ SearchFrame

SearchNext ==
  \/ SearchValidate \/ SearchCheckMode \/ SearchCountDocs
  \/ SearchCreateEngine \/ SearchQuery \/ SearchRespond
  \/ SearchReraise \/ SearchFail

SearchSpec == SearchInit /\ [][SearchNext]_allvars

\* The handler body was entered: the framework accepted the parameters.
SearchEntered ==
  /\ search.pc \notin {"idle", "validate"}
  /\ search.req.has_query
  /\ search.req.top_k \in TopKMin..TopKMax

SearchCalled(name) == \E i \in 1..Len(search.calls) : search.calls[i][1] = name

Contains(detail, part) == \E i \in 1..Len(detail) : detail[i] = part

\* C12: a request with a valid response_mode, top_k in 1..20 and a document
\* count above zero, whose engine creation and RAG query succeed, is answered
\* 200 with the query text, the RAG answer and the document count.
C12_SearchSuccess ==
  ( /\ SearchEntered
    /\ search.pc = "done"
    /\ search.req.response_mode \in ValidModes
    /\ search.env.count > 0
    /\ ~search.env.engine_raises
    /\ ~search.env.query_raises )
  => /\ search.status = 200
     /\ search.body = [query |-> search.req.query,
                       response |-> search.env.answer,
                       documents_count |-> search.env.count]

\* C15: a response_mode outside the four valid modes is answered 400 with a
\* detail containing 'Invalid response_mode', whatever the document count,
\* and neither the engine is created nor a query run.
C15_InvalidMode ==
  (SearchEntered /\ search.req.response_mode \notin ValidModes)
  => /\ ~SearchCalled("create_query_engine")
     /\ ~SearchCalled("query")
     /\ search.pc = "done"
          => /\ search.status = 400
             /\ Contains(search.detail, "Invalid response_mode")

\* C15's case: a request with an invalid mode, made while the index holds
\* documents, has been answered 400.
C15_Witness ==
  /\ SearchEntered
  /\ search.pc = "done"
  /\ search.req.response_mode = "invalid_mode"
  /\ search.env.count = MaxDocs
  /\ search.status = 400

\* C16: with a valid response_mode and a reported document count of 0 the
\* answer is 404 with a detail containing 'No documents found', and neither
\* the engine is created nor a query run.
C16_NoDocuments ==
  ( /\ SearchEntered
    /\ search.req.response_mode \in ValidModes
    /\ search.env.count = 0 )
  => /\ ~SearchCalled("create_query_engine")
     /\ ~SearchCalled("query")
     /\ search.pc = "done"
          => /\ search.status = 404
             /\ Contains(search.detail, "No documents found")

\* C16's case: the count was read as 0 and the request answered.
C16_Witness ==
  /\ SearchEntered
  /\ search.pc = "done"
  /\ search.req.response_mode \in ValidModes
  /\ search.doc_count = 0
  /\ SearchCalled("get_database_document_count")
  /\ search.status = 404

\* C17: an exception other than HTTPException raised in the handler is
\* answered 500 with a detail beginning 'Search failed', and the 400 and 404
\* raised in the handler keep their status.
C17_ExceptionMapping ==
  (SearchEntered /\ search.pc = "done")
  => /\ search.exc.kind = "other"
          => /\ search.status = 500
             /\ search.detail[1] = "Search failed: "
     /\ search.exc.kind = "http"
          => /\ search.status = search.exc.status
             /\ search.status \in {400, 404}
             /\ search.detail = search.exc.detail

\* C17's case: engine creation raised and the request was answered 500.
C17_Witness ==
  /\ SearchEntered
  /\ search.pc = "done"
  /\ search.env.engine_raises
  /\ SearchCalled("create_query_engine")
  /\ search.exc.kind = "other"
  /\ search.status = 500

\* ======================================================== main.py

\* A URL path is the sequence of its segments: "/" is <<"">>, "/search" is
\* <<"search">>, "/api/accounts/" is <<"api", "accounts", "">>.  A prefix such
\* as "/accounts" is <<"accounts">>, and string concatenation of a prefix and
\* a path is the concatenation of the sequences.

\* Longest request path enumerated, in segments.
MaxSegs == 4

Segments ==
  {"", "api", "accounts", "unitofwork", "search", "health", "docs",
   "handleDataCloudDataChangeEvent"}

RECURSIVE PathsOfLen(_)
PathsOfLen(n) ==
  IF n = 0 THEN {<<>>}
  ELSE {<<g>> \o t : g \in Segments, t \in PathsOfLen(n - 1)}

RoutePaths == UNION {PathsOfLen(n) : n \in 1..MaxSegs}

\* @router.get(path) / @router.post(path): a route of a router or application.
ApiRoute(method, path, endpoint, status) ==
  [kind |-> "route", method |-> method, path |-> path,
   endpoint |-> endpoint, status |-> status]

\* app.mount(prefix, sub_app)
Mount(prefix) ==
  [kind |-> "mount", method |-> "", path |-> prefix,
   endpoint |-> "sf_app", status |-> 0]

\* APIRouter(prefix=...) and include_router(router, prefix=...): every route's
\* path is the prefix followed by the path it had.
WithPrefix(prefix, routes) ==
  [i \in 1..Len(routes) |-> [routes[i] EXCEPT !.path = prefix \o @]]

\* routers/accounts.py lines 9-12, 34: prefix "/accounts", GET "/"
AccountsRouter ==
  WithPrefix(<<"accounts">>, <<ApiRoute("GET", <<"">>, "get_accounts", 200)>>)

\* routers/unitofwork.py lines 10-12, 28: no prefix, POST "/", 201
UnitOfWorkRouter ==
  WithPrefix(<<>>, <<ApiRoute("POST", <<"">>, "create_unit_of_work", 201)>>)

\* routers/datacloud.py lines 11-14, 31: prefix, POST "/", 204
DataCloudRouter ==
  WithPrefix(<<"handleDataCloudDataChangeEvent">>,
             <<ApiRoute("POST", <<"">>, "handle_data_cloud_change_event", 204)>>)

\* routers/search.py lines 14, 24: no prefix, GET "/search"
SearchRouter ==
  WithPrefix(<<>>, <<ApiRoute("GET", <<"search">>, "search_documents", 200)>>)

\* The routes FastAPI() itself adds.
DocsRoutes ==
  << ApiRoute("GET", <<"openapi.json">>, "openapi", 200),
     ApiRoute("GET", <<"docs">>, "swagger_ui_html", 200),
     ApiRoute("GET", <<"docs", "oauth2-redirect">>, "swagger_ui_redirect", 200),
     ApiRoute("GET", <<"redoc">>, "redoc_html", 200) >>

\* main.py lines 16-22: sf_app and the routers included in it.
SfAppRoutes ==
  DocsRoutes
    \o WithPrefix(<<"accounts">>, AccountsRouter)
    \o WithPrefix(<<"unitofwork">>, UnitOfWorkRouter)

\* main.py lines 25-66: app, in the order the routes are added.
AppRoutes ==
  DocsRoutes
    \o <<Mount(<<"api">>)>>
    \o WithPrefix(<<>>, DataCloudRouter)
    \o << ApiRoute("GET", <<"">>, "read_root", 200),
          ApiRoute("GET", <<"health">>, "get_health", 200) >>

IsPrefix(a, b) == Len(a) <= Len(b) /\ SubSeq(b, 1, Len(a)) = a

\* Route.matches and Mount.matches: a route matches its exact path, fully if
\* the method is its own and partially otherwise; a mount matches every path
\* that continues after its prefix, whatever the method.
Match(r, method, path) ==
  IF r.kind = "mount"
  THEN IF IsPrefix(r.path, path) /\ Len(path) > Len(r.path)
       THEN "full" ELSE "none"
  ELSE IF r.path # path THEN "none"
  ELSE IF r.method = method THEN "full" ELSE "partial"

\* The path with its trailing slash removed, or added.
ToggleSlash(path) ==
  IF path[Len(path)] = "" THEN SubSeq(path, 1, Len(path) - 1)
  ELSE path \o <<"">>

Indices(routes, method, path, kinds) ==
  {i \in 1..Len(routes) : Match(routes[i], method, path) \in kinds}

Lowest(S) == CHOOSE i \in S : \A j \in S : i <= j

\* Router.app: the first full match is served; failing that the first partial
\* match answers 405; failing that a path that matches with its trailing
\* slash toggled is redirected (307); otherwise 404.
Resolve(routes, method, path) ==
  LET full == Indices(routes, method, path, {"full"})
      part == Indices(routes, method, path, {"partial"})
  IN IF full # {} THEN [kind |-> "match", route |-> routes[Lowest(full)]]
     ELSE IF part # {} THEN [kind |-> "status", status |-> 405]
     ELSE IF /\ path # <<"">>
             /\ ToggleSlash(path) # <<>>
             /\ Indices(routes, method, ToggleSlash(path),
                        {"full", "partial"}) # {}
       THEN [kind |-> "status", status |-> 307]
     ELSE [kind |-> "status", status |-> 404]

RouteRequests == [method : {"GET", "POST"}, path : RoutePaths, has_query : BOOLEAN]

RouteInit ==
  /\ ChunkerIdle
  /\ conc = Idle /\ search = Idle /\ uow = Idle /\ acct = Idle
  /\ dc = Idle /\ gh = Idle
  /\ \E r \in RouteRequests :
       route = [pc |-> "app", req |-> r, path |-> r.path,
                endpoint |-> "", declared |-> 0, status |-> 0]

RouteFrame == UNCHANGED <<vars, conc, search, uow, acct, dc, gh>>

\* The application app routes the request: to an endpoint of its own, into
\* the mounted sf_app with the rest of the path, or to an error answer.
RouteApp ==
  /\ route.pc = "app"
  /\ LET r == Resolve(AppRoutes, route.req.method, route.path) IN
       IF r.kind = "status"
       THEN route' = [route EXCEPT !.pc = "done", !.status = r.status]
       ELSE IF r.route.kind = "mount"
       THEN route' = [route EXCEPT !.pc = "sf_app",
                        !.path = SubSeq(@, Len(r.route.path) + 1, Len(@))]
       ELSE route' = [route EXCEPT !.pc = "endpoint",
                        !.endpoint = r.route.endpoint,
                        !.declared = r.route.status]
  /\ RouteFrame

\* The mounted sf_app routes the rest of the path (its middleware passes the
\* request through).
RouteSfApp ==
  /\ route.pc = "sf_app"
  /\ LET r == Resolve(SfAppRoutes, route.req.method, route.path) IN
       IF r.kind = "status"
       THEN route' = [route EXCEPT !.pc = "done", !.status = r.status]
       ELSE route' = [route EXCEPT !.pc = "endpoint",
                        !.endpoint = r.route.endpoint,
                        !.declared = r.route.status]
  /\ RouteFrame

\* The endpoint's parameters are bound (search_documents requires query) and
\* the endpoint answers; what the handlers do is modelled in their own
\* components, here a handler answers its declared status.
RouteEndpoint ==
  /\ route.pc = "endpoint"
  /\ IF route.endpoint = "search_documents" /\ ~route.req.has_query
     THEN route' = [route EXCEPT !.pc = "done", !.status = 422]
     ELSE route' = [route EXCEPT !.pc = "done", !.status = route.declared]
  /\ RouteFrame

RouteNext == RouteApp \/ RouteSfApp \/ RouteEndpoint

RouteSpec == RouteInit /\ [][RouteNext]_allvars

\* C13: the application dispatches GET /search to search_documents, so a
\* GET /search without the query parameter is answered 422.
C13_SearchRouted ==
  ( /\ route.pc = "done"
    /\ route.req.method = "GET"
    /\ route.req.path = <<"search">>
    /\ ~route.req.has_query )
  => /\ route.endpoint = "search_documents"
     /\ route.status = 422

\* C14: GET /api/accounts/ reaches get_accounts and is answered 200, the
\* served path being the /api mount, the include_router prefix and the
\* router's own prefix in a row.
C14_AccountsRouted ==
  ( /\ route.pc = "done"
    /\ route.req.method = "GET"
    /\ route.req.path = <<"api", "accounts", "">> )
  => /\ route.endpoint = "get_accounts"
     /\ route.status = 200
     /\ \E i \in 1..Len(SfAppRoutes) :
          /\ SfAppRoutes[i].endpoint = "get_accounts"
          /\ SfAppRoutes[i].path = <<"accounts">> \o <<"accounts">> \o <<"">>

\* The path get_accounts is served at: /api/accounts/accounts/.
AccountsServedAt ==
  ( /\ route.pc = "done"
    /\ route.req.method = "GET"
    /\ route.endpoint = "get_accounts" )
  => route.req.path = <<"api", "accounts", "accounts", "">>

\* ============================================ routers/unitofwork.py

\* Python's None, and the reference id register_create returns.
NoneVal == [type |-> "none", val |-> ""]
RefId(name) == [type |-> "ref", val |-> name]

\* if request.data.callbackUrl: is taken whatever the value.
Truthy_Always(v) == TRUE

\* if request.data.callbackUrl: None and the empty string are false.
Truthy(v) == v # NoneVal /\ v # Str("")

\* error_message without the exception's text.
ErrorMessage_NoCause(e) == <<"Failed to insert record.">>

\* error_message = f"Failed to insert record. Root Cause: {e}"
ErrorMessage(e) == <<"Failed to insert record. Root Cause: ", e>>

Create(type, fields) == [type |-> type, fields |-> fields]

\* The four register_create calls, in order; each returns the reference id
\* the later ones use.
Creates(data) ==
  << Create("Account", << <<"Name", data.accountName>> >>),
     Create("Contact",
            << <<"FirstName", data.firstName>>,
               <<"LastName", data.lastName>>,
               <<"AccountId", RefId("account_id")>> >>),
     Create("Case",
            << <<"Subject", data.subject>>,
               <<"Description", data.description>>,
               <<"Origin", Str("Web")>>, <<"Status", Str("New")>>,
               <<"AccountId", RefId("account_id")>>,
               <<"ContactId", RefId("contact_id")>> >>),
     Create("Case",
            << <<"ParentId", RefId("service_case_id")>>,
               <<"Subject", Str("Follow Up")>>,
               <<"Description", Str("Follow up with Customer")>>,
               <<"Origin", Str("Web")>>, <<"Status", Str("New")>>,
               <<"AccountId", RefId("account_id")>>,
               <<"ContactId", RefId("contact_id")>> >>) >>

\* callback_response_body: the ids of the four committed records.
CallbackBody ==
  << <<"accountId", "acc1">>, <<"contactId", "con1">>,
     <<"serviceCaseId", "case1">>, <<"followupCaseId", "case2">> >>

\* class UnitOfWorkData: three required strings and three optional ones.
UowRequests ==
  [ accountName : {Str("Test Account")},
    lastName    : {Str("Test")},
    subject     : {Str("Test Case")},
    firstName   : {NoneVal, Str("First")},
    description : {NoneVal, Str("This is a test case.")},
    callbackUrl : {NoneVal, Str(""), Str("http://localhost/callback")} ]

\* What the SDK does: the commit returns or raises, the result holds the four
\* ids or lacks one, the callback request returns or raises.
UowEnvs ==
  [ commit   : {"ok", "raise"},
    ids      : {"ok", "missing"},
    callback : {"ok", "raise"} ]

CommitError == "Commit failed!"
IdError == "'NoneType' object has no attribute 'id'"
CallbackError == "Callback failed!"

UowInit ==
  /\ ChunkerIdle
  /\ conc = Idle /\ search = Idle /\ acct = Idle /\ route = Idle
  /\ dc = Idle /\ gh = Idle
  /\ \E d \in UowRequests, e \in UowEnvs :
       uow = [pc |-> "start", data |-> d, env |-> e,
              registered |-> <<>>, commits |-> <<>>, returned |-> FALSE,
              body |-> <<>>, callbacks |-> <<>>,
              infos |-> 0, errors |-> <<>>, exc |-> "",
              status |-> 0, detail |-> <<>>, success |-> FALSE]

UowFrame == UNCHANGED <<vars, conc, search, acct, route, dc, gh>>

\* lines 44-51: the context, logger.info, new_unit_of_work
UowStart ==
  /\ uow.pc = "start"
  /\ uow' = [uow EXCEPT !.pc = "register", !.infos = @ + 1,
                        !.registered = <<>>]
  /\ UowFrame

\* lines 53-85: the next register_create
UowRegisterCreate ==
  /\ uow.pc = "register"
  /\ LET n == Len(uow.registered) + 1
         all == Creates(uow.data)
     IN uow' = [uow EXCEPT
                  !.registered = Append(@, all[n]),
                  !.pc = IF n = Len(all) THEN "commit" ELSE "register"]
  /\ UowFrame

\* lines 87-88: response = await data_api.commit_unit_of_work(uow)
UowCommit ==
  /\ uow.pc = "commit"
  /\ IF uow.env.commit = "raise"
     THEN uow' = [uow EXCEPT !.commits = Append(@, uow.registered),
                             !.exc = CommitError, !.pc = "except"]
     ELSE uow' = [uow EXCEPT !.commits = Append(@, uow.registered),
                             !.returned = TRUE, !.pc = "body"]
  /\ UowFrame

\* lines 90-97: callback_response_body from response.get(...).id
UowBody ==
  /\ uow.pc = "body"
  /\ IF uow.env.ids = "missing"
     THEN uow' = [uow EXCEPT !.exc = IdError, !.pc = "except"]
     ELSE uow' = [uow EXCEPT !.body = CallbackBody, !.pc = "callback"]
  /\ UowFrame

\* lines 99-106: the callback request, when callbackUrl is true
UowCallback ==
  /\ uow.pc = "callback"
  /\ IF Truthy(uow.data.callbackUrl)
     THEN LET sent == [url |-> uow.data.callbackUrl, method |-> "POST",
                       json |-> uow.body, commits |-> uow.commits,
                       returned |-> uow.returned]
          IN IF uow.env.callback = "raise"
             THEN uow' = [uow EXCEPT !.callbacks = Append(@, sent),
                                     !.exc = CallbackError, !.pc = "except"]
             ELSE uow' = [uow EXCEPT !.callbacks = Append(@, sent),
                                     !.infos = @ + 1, !.pc = "return"]
     ELSE uow' = [uow EXCEPT !.pc = "return"]
  /\ UowFrame

\* lines 108-111: except Exception
UowFail ==
  /\ uow.pc = "except"
  /\ uow' = [uow EXCEPT !.errors = Append(@, ErrorMessage(uow.exc)),
                        !.status = 500,
                        !.detail = ErrorMessage(uow.exc),
                        !.pc = "done"]
  /\ UowFrame

\* line 113: return UnitOfWorkResponse(success=True), status_code=201
UowReturn ==
  /\ uow.pc = "return"
  /\ uow' = [uow EXCEPT !.status = 201, !.success = TRUE, !.pc = "done"]
  /\ UowFrame

UowNext ==
  \/ UowStart
  \/ UowRegisterCreate
  \/ UowCommit
  \/ UowBody
  \/ UowCallback
  \/ UowFail
  \/ UowReturn

UowSpec == UowInit /\ [][UowNext]_allvars

UowActive == uow.pc # "idle"

\* C18: when commit_unit_of_work raises, the request is answered 500 with a
\* detail that contains the root-cause message, the error is logged exactly
\* once, no callback request is sent and success=true is never returned.
C18_CommitFails ==
  (UowActive /\ uow.env.commit = "raise") =>
     /\ uow.callbacks = <<>>
     /\ ~uow.success
     /\ Len(uow.errors) <= 1
     /\ uow.pc = "done" =>
          /\ uow.status = 500
          /\ Contains(uow.detail, CommitError)
          /\ Len(uow.errors) = 1

\* A request with a callbackUrl whose commit raised has been answered.
C18_Witness ==
  /\ UowActive
  /\ uow.pc = "done"
  /\ uow.env.commit = "raise"
  /\ uow.data.callbackUrl = Str("http://localhost/callback")
  /\ Len(uow.commits) = 1
  /\ uow.status = 500

\* Every callback request was sent after the one commit_unit_of_work call,
\* made with the four registered creates, had returned.
CallbacksAfterCommit ==
  \A i \in 1..Len(uow.callbacks) :
     /\ uow.callbacks[i].returned
     /\ uow.callbacks[i].commits = <<Creates(uow.data)>>

\* C19 as stated: the callback request is sent exactly once when callbackUrl
\* is supplied and never when it is absent, and only after the single
\* commit_unit_of_work call with the four registered creates has returned.
C19_CallbackOnce_Original ==
  (UowActive /\ uow.pc = "done") =>
     /\ uow.data.callbackUrl # NoneVal => Len(uow.callbacks) = 1
     /\ uow.data.callbackUrl = NoneVal => uow.callbacks = <<>>
     /\ CallbacksAfterCommit

\* C19: the callback request is sent exactly once when the commit returned,
\* the four ids were read from its result and callbackUrl is a non-empty
\* string, and never otherwise; commit_unit_of_work is invoked exactly once,
\* with the four registered creates, and a callback is only sent after it
\* has returned.
C19_CallbackOnce ==
  UowActive =>
     /\ Len(uow.callbacks) <= 1
     /\ Len(uow.commits) <= 1
     /\ CallbacksAfterCommit
     /\ uow.pc = "done" =>
          /\ uow.commits = <<Creates(uow.data)>>
          /\ Len(Creates(uow.data)) = 4
          /\ Len(uow.callbacks) =
               IF /\ uow.returned
                  /\ uow.body = CallbackBody
                  /\ uow.data.callbackUrl \notin {NoneVal, Str("")}
               THEN 1 ELSE 0

\* A request with a callbackUrl was committed and its callback sent, once.
C19_Witness ==
  /\ UowActive
  /\ uow.pc = "done"
  /\ uow.status = 201
  /\ Len(uow.callbacks) = 1
  /\ uow.callbacks[1].url = Str("http://localhost/callback")
  /\ uow.callbacks[1].json = CallbackBody

\* ============================================== routers/accounts.py

\* Longest query result enumerated, in records.
MaxRecords == 2

\* query = "SELECT Id, Name FROM Account"
SoqlQuery == "SELECT Id, Name FROM Account"

\* record.fields of the records the query returns
RecordFields == [Id : {"123", "456"}, Name : {"Test Account", "Acme"}]

RECURSIVE RecordsOfLen(_)
RecordsOfLen(n) ==
  IF n = 0 THEN {<<>>}
  ELSE {<<r>> \o t : r \in RecordFields, t \in RecordsOfLen(n - 1)}

QueryResults == UNION {RecordsOfLen(n) : n \in 0..MaxRecords}

\* An Account built with the two fields exchanged.
Account_Swapped(fields) == [id |-> fields.Name, name |-> fields.Id]

\* Account(id=record.fields["Id"], name=record.fields["Name"])
Account(fields) == [id |-> fields.Id, name |-> fields.Name]

QueryError == "Query failed!"

AcctInit ==
  /\ ChunkerIdle
  /\ conc = Idle /\ search = Idle /\ uow = Idle /\ route = Idle
  /\ dc = Idle /\ gh = Idle
  /\ \E rs \in QueryResults, o \in {"ok", "raise"} :
       acct = [pc |-> "start", records |-> rs, outcome |-> o,
               queries |-> <<>>, result |-> <<>>, printed |-> 0,
               accounts |-> <<>>, status |-> 0, body |-> <<>>]

AcctFrame == UNCHANGED <<vars, conc, search, uow, route, dc, gh>>

\* line 45: data_api = sdk.get_client_context().data_api
AcctGetContext ==
  /\ acct.pc = "start"
  /\ acct' = [acct EXCEPT !.pc = "query"]
  /\ AcctFrame

\* lines 27-28: result = await data_api.query(query); an exception leaves
\* the handler and the request is answered 500.
AcctQuery ==
  /\ acct.pc = "query"
  /\ IF acct.outcome = "raise"
     THEN acct' = [acct EXCEPT !.queries = Append(@, SoqlQuery),
                               !.status = 500, !.body = <<QueryError>>,
                               !.pc = "done"]
     ELSE acct' = [acct EXCEPT !.queries = Append(@, SoqlQuery),
                               !.result = acct.records,
                               !.pc = "print"]
  /\ AcctFrame

\* lines 30-32: the debugging print of every record, then return result
AcctPrint ==
  /\ acct.pc = "print"
  /\ IF acct.printed < Len(acct.result)
     THEN acct' = [acct EXCEPT !.printed = @ + 1]
     ELSE acct' = [acct EXCEPT !.pc = "build"]
  /\ AcctFrame

\* lines 48-51: the list comprehension over result.records
AcctBuild ==
  /\ acct.pc = "build"
  /\ LET n == Len(acct.accounts) + 1 IN
       IF n <= Len(acct.result)
       THEN acct' = [acct EXCEPT
                       !.accounts = Append(@, Account(acct.result[n]))]
       ELSE acct' = [acct EXCEPT !.pc = "return"]
  /\ AcctFrame

\* line 52: return accounts
AcctReturn ==
  /\ acct.pc = "return"
  /\ acct' = [acct EXCEPT !.status = 200, !.body = acct.accounts,
                          !.pc = "done"]
  /\ AcctFrame

AcctNext ==
  \/ AcctGetContext
  \/ AcctQuery
  \/ AcctPrint
  \/ AcctBuild
  \/ AcctReturn

AcctSpec == AcctInit /\ [][AcctNext]_allvars

AcctActive == acct.pc # "idle"

\* C20: get_accounts issues exactly one SOQL query, 'SELECT Id, Name FROM
\* Account', per request, and returns one {id, name} entry per record of the
\* query result, in record order, id and name being that record's Id and
\* Name fields.
C20_AccountsList ==
  AcctActive =>
     /\ Len(acct.queries) <= 1
     /\ acct.pc = "done" => acct.queries = <<SoqlQuery>>
     /\ (acct.pc = "done" /\ acct.status = 200) =>
          /\ Len(acct.body) = Len(acct.records)
          /\ \A i \in 1..Len(acct.records) :
               /\ acct.body[i].id = acct.records[i].Id
               /\ acct.body[i].name = acct.records[i].Name

\* Two different records were returned, in their order.
C20_Witness ==
  /\ AcctActive
  /\ acct.pc = "done"
  /\ acct.status = 200
  /\ Len(acct.body) = 2
  /\ acct.body[1] # acct.body[2]
  /\ acct.body[1] = [id |-> "123", name |-> "Test Account"]

\* ============================================= routers/datacloud.py

\* Most events in one request payload.
MaxEvents == 2

\* The condition of line 64 with "or" in the place of "and".
ShouldQuery_Either(org_name, query) == Truthy(org_name) \/ Truthy(query)

\* if os.environ.get("DATA_CLOUD_ORG") and os.environ.get("DATA_CLOUD_QUERY"):
\* os.environ.get gives None for an unset variable, and None and the empty
\* string are false.
ShouldQuery(org_name, query) == Truthy(org_name) /\ Truthy(query)

\* The environment (unset, empty or set) and what the SDK calls do.
DcEnvs ==
  [ DATA_CLOUD_ORG   : {NoneVal, Str(""), Str("my-dc-org")},
    DATA_CLOUD_QUERY : {NoneVal, Str(""), Str("SELECT Id FROM SomeObject")},
    events : 0..MaxEvents,
    parse  : {"ok", "raise"},
    auth   : {"ok", "raise"},
    query  : {"ok", "raise"} ]

DcInit ==
  /\ ChunkerIdle
  /\ conc = Idle /\ search = Idle /\ uow = Idle /\ acct = Idle
  /\ route = Idle /\ gh = Idle
  /\ \E e \in DcEnvs :
       dc = [pc |-> "parse", env |-> e, parsed |-> 0, logged |-> 0,
             infos |-> 0, calls |-> <<>>, status |-> 0]

DcFrame == UNCHANGED <<vars, conc, search, uow, acct, route, gh>>

\* An exception leaves the handler: the request is answered 500.
DcRaise(d) == [d EXCEPT !.status = 500, !.pc = "done"]

\* lines 45-53: the context, parse_data_action_event, logger.info
DcParse ==
  /\ dc.pc = "parse"
  /\ LET d == [dc EXCEPT !.parsed = @ + 1] IN
       IF dc.env.parse = "raise"
       THEN dc' = DcRaise(d)
       ELSE dc' = [d EXCEPT !.infos = @ + 1, !.pc = "events"]
  /\ DcFrame

\* lines 55-60: one logger.info for every event, then the test of line 64
DcLogEvent ==
  /\ dc.pc = "events"
  /\ IF dc.logged < dc.env.events
     THEN dc' = [dc EXCEPT !.logged = @ + 1, !.infos = @ + 1]
     ELSE IF ShouldQuery(dc.env.DATA_CLOUD_ORG, dc.env.DATA_CLOUD_QUERY)
     THEN dc' = [dc EXCEPT !.pc = "authorize"]
     ELSE dc' = [dc EXCEPT !.pc = "return"]
  /\ DcFrame

\* lines 65-70: org = await app_link_addon.get_authorization(org_name)
DcAuthorize ==
  /\ dc.pc = "authorize"
  /\ LET d == [dc EXCEPT
                 !.infos = @ + 1,
                 !.calls = Append(@, <<"get_authorization",
                                       dc.env.DATA_CLOUD_ORG>>)]
     IN IF dc.env.auth = "raise"
        THEN dc' = DcRaise(d)
        ELSE dc' = [d EXCEPT !.pc = "query"]
  /\ DcFrame

\* lines 72-74: response = await org.data_cloud_api.query(query)
DcQuery ==
  /\ dc.pc = "query"
  /\ LET d == [dc EXCEPT
                 !.infos = @ + 1,
                 !.calls = Append(@, <<"query", dc.env.DATA_CLOUD_QUERY>>)]
     IN IF dc.env.query = "raise"
        THEN dc' = DcRaise(d)
        ELSE dc' = [d EXCEPT !.infos = @ + 1, !.pc = "return"]
  /\ DcFrame

\* line 76: return, status_code=204
DcReturn ==
  /\ dc.pc = "return"
  /\ dc' = [dc EXCEPT !.status = 204, !.pc = "done"]
  /\ DcFrame

DcNext ==
  \/ DcParse
  \/ DcLogEvent
  \/ DcAuthorize
  \/ DcQuery
  \/ DcReturn

DcSpec == DcInit /\ [][DcNext]_allvars

DcActive == dc.pc # "idle"

DcBothSet ==
  /\ dc.env.DATA_CLOUD_ORG \notin {NoneVal, Str("")}
  /\ dc.env.DATA_CLOUD_QUERY \notin {NoneVal, Str("")}

DcAuthCall == <<"get_authorization", dc.env.DATA_CLOUD_ORG>>
DcQueryCall == <<"query", dc.env.DATA_CLOUD_QUERY>>

\* C21 as stated: the payload is parsed exactly once and the request is
\* answered 204; the authorization and then the query are made, each exactly
\* once, when both variables are set to non-empty values, and neither is
\* made when one of them is unset or empty.
C21_DataCloudCalls_Original ==
  (DcActive /\ dc.pc = "done") =>
     /\ dc.parsed = 1
     /\ dc.status = 204
     /\ DcBothSet => dc.calls = <<DcAuthCall, DcQueryCall>>
     /\ ~DcBothSet => dc.calls = <<>>

\* C21: the payload is parsed exactly once; neither call is made when one of
\* the variables is unset or empty; when both are set and the calls before
\* it returned, the authorization and then the query are made, each exactly
\* once; the answer is 204 when every call made returned, and a call that
\* raises ends the handling with 500 and no further call.
C21_DataCloudCalls ==
  DcActive =>
     /\ dc.parsed <= 1
     /\ ~DcBothSet => dc.calls = <<>>
     /\ dc.pc = "done" =>
          /\ dc.parsed = 1
          /\ dc.calls =
               IF ~DcBothSet \/ dc.env.parse = "raise" THEN <<>>
               ELSE IF dc.env.auth = "raise" THEN <<DcAuthCall>>
               ELSE <<DcAuthCall, DcQueryCall>>
          /\ dc.status =
               IF \/ dc.env.parse = "raise"
                  \/ DcBothSet /\ dc.env.auth = "raise"
                  \/ DcBothSet /\ dc.env.query = "raise"
               THEN 500 ELSE 204

\* Both variables set: the authorization and the query were made and the
\* request was answered 204.
C21_Witness ==
  /\ DcActive
  /\ dc.pc = "done"
  /\ dc.status = 204
  /\ dc.calls = << <<"get_authorization", Str("my-dc-org")>>,
                   <<"query", Str("SELECT Id FROM SomeObject")>> >>

\* ======================================= embeddings.py, further claims

\* The loop is about to run another iteration.
AnotherIteration == pc = "loop" /\ LoopCond(start, text_bytes)

\* C22: whenever the loop runs another iteration after one that appended a
\* chunk, the cursor start is strictly greater than it was at that
\* iteration; an advance that does not increase start ends the loop.
C22_CursorIncreases ==
  (AnotherIteration /\ wins # <<>>) => start > wins[Len(wins)].start

\* C23: the window end, as used to cut the chunk and as used to compute the
\* next start, never exceeds the byte length of the encoded text.
C23_EndClamped ==
  /\ pc \in {"append", "backoff"} => end <= TotalLen
  /\ \A i \in 1..Len(wins) : wins[i].end <= TotalLen

\* overlap_bytes >= 0 and max_bytes > 0.
GapFreeConfig == overlap_bytes >= 0 /\ max_bytes > 0

\* C25: with overlap_bytes >= 0 and max_bytes > 0 the first window starts at
\* offset 0 and every later window starts at or before the end of the window
\* before it, and when the call has returned every byte offset of the text
\* lies in the window of a returned chunk.
C25_NoGap ==
  GapFreeConfig =>
     /\ wins # <<>> => wins[1].start = 0
     /\ \A i \in 1..(Len(wins) - 1) : wins[i + 1].start <= wins[i].end
     /\ pc = "returned" =>
          \A k \in 0..(TotalLen - 1) :
             \E i \in 1..Len(wins) : k \in WindowBytes(wins[i])

\* A call on text with a multi-byte character has returned more than one
\* chunk, one of them shortened by the back-off loop.
C25_Witness ==
  /\ GapFreeConfig
  /\ pc = "returned"
  /\ Len(wins) > 1
  /\ \E j \in 1..Len(text) : text[j] >= 128
  /\ \E i \in 1..Len(wins) : wins[i].end < wins[i].start + max_bytes

\* The text holds 1-byte characters only.
AsciiText == \A j \in 1..Len(text) : text[j] < 128

Stride == max_bytes - overlap_bytes

C27_SkipNeverTaken == pc = "backoff" => BackOffCond(end, start)

\* ============================================================ github.py

\* per_page = 100
PerPage == 100

\* Most repositories of an organization.
MaxRepos == 250

\* The repositories of an organization with n of them, in the order the API
\* lists them.
AllRepos(n) == [i \in 1..n |-> i]

\* The JSON list the API answers for page k of an organization with n
\* repositories: entries (k-1)*per_page + 1 .. k*per_page, as far as they
\* exist.
ApiPage(n, k) ==
  LET lo == (k - 1) * PerPage + 1
      hi == Min(k * PerPage, n)
  IN IF lo > hi THEN <<>> ELSE [i \in 1..(hi - lo + 1) |-> lo + i - 1]

\* Pages a call can ask for: the last one is the first with fewer than
\* per_page entries.
MaxPages == MaxRepos \div PerPage + 1

\* fetch_json (lines 16-39): the parsed JSON, or None after an HTTPError or
\* URLError.  fail_at is the page whose request fails, 0 for none.
FetchJson(n, k, fail_at) ==
  IF k = fail_at THEN [none |-> TRUE, list |-> <<>>]
  ELSE [none |-> FALSE, list |-> ApiPage(n, k)]

\* if not data: None and the empty list are false.
NotData(d) == d.none \/ d.list = <<>>

GhInit ==
  /\ ChunkerIdle
  /\ conc = Idle /\ search = Idle /\ uow = Idle /\ acct = Idle
  /\ route = Idle /\ dc = Idle
  /\ \E n \in 0..MaxRepos, f \in 0..MaxPages :
       gh = [pc |-> "fetch", n |-> n, fail_at |-> f,
             repos |-> <<>>, page |-> 1,
             data |-> [none |-> FALSE, list |-> <<>>],
             requested |-> <<>>, sizes |-> <<>>]

GhFrame == UNCHANGED <<vars, conc, search, uow, acct, route, dc>>

\* lines 57-59: url for the page, data = fetch_json(url)
GhFetch ==
  /\ gh.pc = "fetch"
  /\ LET d == FetchJson(gh.n, gh.page, gh.fail_at) IN
       gh' = [gh EXCEPT !.data = d,
                        !.requested = Append(@, gh.page),
                        !.sizes = Append(@, Len(d.list)),
                        !.pc = "check"]
  /\ GhFrame

\* lines 61-69: break on no data, extend, break on a short page, next page
GhExtend ==
  /\ gh.pc = "check"
  /\ IF NotData(gh.data)
     THEN gh' = [gh EXCEPT !.pc = "return"]
     ELSE IF Len(gh.data.list) < PerPage
     THEN gh' = [gh EXCEPT !.repos = @ \o gh.data.list, !.pc = "return"]
     ELSE gh' = [gh EXCEPT !.repos = @ \o gh.data.list,
                           !.page = @ + 1, !.pc = "fetch"]
  /\ GhFrame

\* line 71: return repos
GhReturn ==
  /\ gh.pc = "return"
  /\ gh' = [gh EXCEPT !.pc = "returned"]
  /\ GhFrame

GhNext == GhFetch \/ GhExtend \/ GhReturn

GhSpec == GhInit /\ [][GhNext]_allvars

GhActive == gh.pc # "idle"

\* Pages 1, 2, 3, ... were requested in sequence, each one after the first
\* only once the page before it had returned exactly per_page entries.
GhSequential ==
  \A k \in 1..Len(gh.requested) :
     /\ gh.requested[k] = k
     /\ k > 1 => gh.sizes[k - 1] = PerPage

\* C24: for an organization with any finite number of repositories the call
\* returns every repository exactly once, in page order; it requests pages
\* 1, 2, 3, ... in sequence, page k+1 only after page k returned exactly 100
\* entries.
C24_AllRepositories ==
  GhActive =>
     /\ GhSequential
     /\ gh.pc = "returned" => gh.repos = AllRepos(gh.n)

\* With every request answered, the call returns all the repositories.
GhCompleteWithoutFailure ==
  (GhActive /\ gh.pc = "returned" /\ gh.fail_at = 0)
     => gh.repos = AllRepos(gh.n)

====
